---- MODULE Spec2Model ----
(***************************************************************************)
(* Model of MetodosNumericos (src/src/metodos_numericos.py): the three     *)
(* root finders biseccion, newton_raphson and punto_fijo, run on the       *)
(* functions of BlackjackMath (src/src/blackjack_game.py) and on caller    *)
(* supplied polynomials, and analizar_convergencia, run on result dicts.   *)
(*                                                                         *)
(* Numbers.  A Python float of the program is modelled by a dyadic         *)
(* rational m * 2^e, kept normalised (m odd, or m = 0 and e = 0).  Sums,   *)
(* differences, products and halvings of such numbers are exact, as they   *)
(* are for doubles while the mantissa stays below 2^53; the inputs of the  *)
(* model keep every mantissa below 2^31.  A sum whose smaller term lies    *)
(* below the last place of the larger one is rounded to the larger term,   *)
(* as the double sum is.  float('inf') and None are two further values of  *)
(* the same record shape.  Halving underflows below 2^-1074 as it does for  *)
(* doubles.                                                                *)
(***************************************************************************)
EXTENDS Integers, Sequences, FiniteSets, TLC

(***************************************************************************)
(* Values                                                                  *)
(***************************************************************************)
RECURSIVE Pow2(_)
Pow2(n) == IF n <= 0 THEN 1 ELSE 2 * Pow2(n - 1)

RECURSIVE BitLen(_)
BitLen(n) == IF n <= 0 THEN 0 ELSE 1 + BitLen(n \div 2)

AbsInt(n) == IF n < 0 THEN -n ELSE n

SgnInt(n) == IF n < 0 THEN -1 ELSE IF n = 0 THEN 0 ELSE 1

RECURSIVE Norm(_, _)
Norm(m, e) ==
    IF m = 0 THEN [k |-> "num", m |-> 0, e |-> 0]
    ELSE IF m % 2 = 0 THEN Norm(m \div 2, e + 1)
    ELSE [k |-> "num", m |-> m, e |-> e]

Int2Num(n) == Norm(n, 0)

Inf == [k |-> "inf", m |-> 0, e |-> 0]

None == [k |-> "None", m |-> 0, e |-> 0]

Raise == [k |-> "raise", m |-> 0, e |-> 0]

Sign(x) == IF x.k = "inf" THEN 1 ELSE SgnInt(x.m)

Neg(x) == [k |-> "num", m |-> -x.m, e |-> x.e]

Abs(x) == IF x.k = "inf" THEN Inf ELSE [k |-> "num", m |-> AbsInt(x.m), e |-> x.e]

\* position of the leading bit of a non-zero number: 2^(Top - 1) <= |x| < 2^Top
Top(x) == BitLen(AbsInt(x.m)) + x.e

\* x + y in doubles returns x unchanged when y is below a quarter of the last
\* place of x's 53-bit mantissa
Absorbe(x, y) == x.m # 0 /\ y.m # 0 /\ Top(y) <= Top(x) - 55

Add(x, y) ==
    IF x.m = 0 THEN y
    ELSE IF y.m = 0 THEN x
    ELSE IF Absorbe(x, y) THEN x
    ELSE IF Absorbe(y, x) THEN y
    ELSE LET emin == IF x.e < y.e THEN x.e ELSE y.e
         IN  Norm(x.m * Pow2(x.e - emin) + y.m * Pow2(y.e - emin), emin)

Sub(x, y) == Add(x, Neg(y))

Mul(x, y) == Norm(x.m * y.m, x.e + y.e)

\* the smallest positive double, 2^-1074 (5e-324): every double is a multiple
\* of it
MENOR_DOBLE == [k |-> "num", m |-> 1, e |-> -1074]

\* x / 2.  Exact, except below the smallest double, where the quotient is
\* rounded to the nearest multiple of MENOR_DOBLE, ties to even.
Half(x) ==
    IF x.m # 0 /\ x.e = MENOR_DOBLE.e
    THEN LET q == (AbsInt(x.m) - 1) \div 2
         IN  Norm(SgnInt(x.m) * (IF q % 2 = 0 THEN q ELSE q + 1), MENOR_DOBLE.e)
    ELSE Norm(x.m, x.e - 1)

\* x < y for two positive finite numbers, by the position of the leading bit
\* first, so that numbers of very different magnitude need no alignment
MagLess(x, y) ==
    LET tx == Top(x)
        ty == Top(y)
        emin == IF x.e < y.e THEN x.e ELSE y.e
    IN  IF tx # ty THEN tx < ty
        ELSE x.m * Pow2(x.e - emin) < y.m * Pow2(y.e - emin)

\* x < y, with float('inf') above every finite number
Less(x, y) ==
    IF x.k = "inf" THEN FALSE
    ELSE IF y.k = "inf" THEN TRUE
    ELSE IF Sign(x) # Sign(y) THEN Sign(x) < Sign(y)
    ELSE IF Sign(x) = 0 THEN FALSE
    ELSE IF Sign(x) > 0 THEN MagLess(x, y)
    ELSE MagLess(Abs(y), Abs(x))

LessEq(x, y) == x = y \/ Less(x, y)

\* x / y.  The quotient is exact when the mantissa of y divides that of x;
\* DivisionExacta below checks that every division of the model's runs is of
\* that kind.  Division by zero raises ZeroDivisionError.
Div(x, y) ==
    IF y.m = 0 THEN Raise
    ELSE Norm(SgnInt(x.m) * SgnInt(y.m) * (AbsInt(x.m) \div AbsInt(y.m)), x.e - y.e)

\* sign of the float product x * y: the product of two doubles of the
\* model's range is neither rounded to zero nor changes sign
ProdSign(x, y) == Sign(x) * Sign(y)

Zero == Int2Num(0)

(***************************************************************************)
(* Program constants                                                       *)
(***************************************************************************)
\* tolerancia = 1e-6 (default of __init__, value of the predefined cases),
\* to 31 significant bits: 1125899907 * 2^-50
TOL_DEFECTO == [k |-> "num", m |-> 1125899907, e |-> -50]

MAX_ITER_DEFECTO == 100

\* 1e-15 of the derivative test, to 29 significant bits: 302231455 * 2^-78
DERIVADA_MINIMA == [k |-> "num", m |-> 302231455, e |-> -78]

\* 1e10 of the divergence test, exactly: 5^10 * 2^10
LIMITE_DIVERGENCIA == [k |-> "num", m |-> 9765625, e |-> 10]

MSG_SIN_RAIZ == "No se garantiza la existencia de raiz en el intervalo"

MSG_EXITO == "Convergencia exitosa"

MSG_MAX_ITER == "Maximo de iteraciones alcanzado"

MSG_DERIVADA == "Derivada muy pequena - posible punto critico"

MSG_DIVERGENTE == "Metodo divergente"

(***************************************************************************)
(* Supplied functions.  A callable is a record: one of the three methods   *)
(* of a BlackjackMath instance bj, or a polynomial c2*x*x + c1*x + c0 or   *)
(* its derivative, supplied by the caller.  polo is a point where the      *)
(* evaluation raises (None for a total function).                          *)
(***************************************************************************)
BlackjackMath(valor_cartas_actuales, objetivo) ==
    [valor_cartas |-> Int2Num(valor_cartas_actuales), objetivo |-> Int2Num(objetivo)]

funcion_objetivo(bj, x) == Sub(Add(bj.valor_cartas, x), bj.objetivo)

\* mutant: the derivative of the linear objective taken as 2
derivada_funcion_doble(bj, x) == Int2Num(2)

derivada_funcion(bj, x) == Int2Num(1)

funcion_punto_fijo(bj, x) == Sub(bj.objetivo, bj.valor_cartas)

polinomio(coef, x) == Add(Add(Mul(coef[1], Mul(x, x)), Mul(coef[2], x)), coef[3])

derivada_polinomio(coef, x) == Add(Mul(Int2Num(2), Mul(coef[1], x)), coef[2])

SinBj == BlackjackMath(0, 0)

SinCoef == <<Zero, Zero, Zero>>

Metodo(tipo, bj) == [tipo |-> tipo, bj |-> bj, coef |-> SinCoef, polo |-> None]

Polinomio(c2, c1, c0, polo) ==
    [tipo |-> "polinomio", bj |-> SinBj, coef |-> <<c2, c1, c0>>, polo |-> polo]

Derivada(f) == 
    IF f.tipo = "polinomio" THEN [f EXCEPT !.tipo = "derivada_polinomio"]
    ELSE [f EXCEPT !.tipo = "derivada_funcion"]

SinFuncion == [tipo |-> "ninguna", bj |-> SinBj, coef |-> SinCoef, polo |-> None]

\* f(x): the value, or Raise when the callable raises at x
Call(f, x) ==
    IF f.polo = x THEN Raise
    ELSE IF f.tipo = "funcion_objetivo" THEN funcion_objetivo(f.bj, x)
    ELSE IF f.tipo = "derivada_funcion" THEN derivada_funcion(f.bj, x)
    ELSE IF f.tipo = "funcion_punto_fijo" THEN funcion_punto_fijo(f.bj, x)
    ELSE IF f.tipo = "polinomio" THEN polinomio(f.coef, x)
    ELSE derivada_polinomio(f.coef, x)

(***************************************************************************)
(* State.  self is the MetodosNumericos instance (tolerancia,              *)
(* max_iteraciones); llamada is one solver call: its arguments, the local  *)
(* variables of the method, its position pc and, once pc = "return", the   *)
(* dict it returned.  pc = "raise" is a call that ended by an exception of *)
(* the supplied function leaving the method.  anteriores holds the dicts    *)
(* returned by the earlier calls of the same method with the same          *)
(* arguments on this instance.  analisis is one call of                    *)
(* analizar_convergencia: its argument, its position and the dict it       *)
(* returned.  concurrentes holds the frames of the other calls in progress  *)
(* on the same instance (other threads), each with its own locals.          *)
(***************************************************************************)
VARIABLES self, llamada, anteriores, analisis, concurrentes

vars == <<self, llamada, anteriores, analisis, concurrentes>>

MetodosNumericos(tolerancia, max_iteraciones) ==
    [tolerancia |-> tolerancia, max_iteraciones |-> max_iteraciones]

Resultado(raiz, iteraciones, convergencia, error, historial_x, historial_error, mensaje) ==
    [raiz |-> raiz, iteraciones |-> iteraciones, convergencia |-> convergencia,
     error |-> error, historial_x |-> historial_x,
     historial_error |-> historial_error, mensaje |-> mensaje]

SinResultado == Resultado(None, 0, FALSE, Inf, <<>>, <<>>, "")

\* the frame of biseccion(funcion, a, b) at its first statement
LlamadaBiseccion(funcion, a, b) ==
    [metodo |-> "biseccion", funcion |-> funcion, derivada |-> SinFuncion,
     g_funcion |-> SinFuncion, arg_a |-> a, arg_b |-> b, x0 |-> None,
     a |-> a, b |-> b, pc |-> "precondicion",
     iteracion |-> 0, error |-> Inf, historial_x |-> <<>>, historial_error |-> <<>>,
     x_anterior |-> Zero, x_actual |-> None, resultado |-> SinResultado]

\* mutant: the seed left out of historial_x
LlamadaNewton_sin_semilla(funcion, derivada, x0) ==
    [metodo |-> "newton_raphson", funcion |-> funcion, derivada |-> derivada,
     g_funcion |-> SinFuncion, arg_a |-> None, arg_b |-> None, x0 |-> x0,
     a |-> None, b |-> None, pc |-> "bucle",
     iteracion |-> 0, error |-> Inf, historial_x |-> <<>>, historial_error |-> <<>>,
     x_anterior |-> Zero, x_actual |-> x0, resultado |-> SinResultado]

\* the frame of newton_raphson(funcion, derivada, x0) at the loop head
LlamadaNewton(funcion, derivada, x0) ==
    [metodo |-> "newton_raphson", funcion |-> funcion, derivada |-> derivada,
     g_funcion |-> SinFuncion, arg_a |-> None, arg_b |-> None, x0 |-> x0,
     a |-> None, b |-> None, pc |-> "bucle",
     iteracion |-> 0, error |-> Inf, historial_x |-> <<x0>>, historial_error |-> <<>>,
     x_anterior |-> Zero, x_actual |-> x0, resultado |-> SinResultado]

\* the frame of punto_fijo(g_funcion, x0) at the loop head
LlamadaPuntoFijo(g_funcion, x0) ==
    [metodo |-> "punto_fijo", funcion |-> SinFuncion, derivada |-> SinFuncion,
     g_funcion |-> g_funcion, arg_a |-> None, arg_b |-> None, x0 |-> x0,
     a |-> None, b |-> None, pc |-> "bucle",
     iteracion |-> 0, error |-> Inf, historial_x |-> <<x0>>, historial_error |-> <<>>,
     x_anterior |-> Zero, x_actual |-> x0, resultado |-> SinResultado]

\* mutant: the history lists kept from one call to the next
NuevaLlamada_historial_compartido(ll) ==
    [(IF ll.metodo = "biseccion" THEN LlamadaBiseccion(ll.funcion, ll.arg_a, ll.arg_b)
      ELSE IF ll.metodo = "newton_raphson"
      THEN LlamadaNewton(ll.funcion, ll.derivada, ll.x0)
      ELSE LlamadaPuntoFijo(ll.g_funcion, ll.x0))
     EXCEPT !.historial_x = ll.historial_x \o @,
            !.historial_error = ll.historial_error \o @]

\* the frame of a further call of the method of ll with the arguments of ll:
\* every local is created anew
NuevaLlamada(ll) ==
    IF ll.metodo = "biseccion" THEN LlamadaBiseccion(ll.funcion, ll.arg_a, ll.arg_b)
    ELSE IF ll.metodo = "newton_raphson"
    THEN LlamadaNewton(ll.funcion, ll.derivada, ll.x0)
    ELSE LlamadaPuntoFijo(ll.g_funcion, ll.x0)

Return(ll, res) == [ll EXCEPT !.pc = "return", !.resultado = res]

Raised(ll) == [ll EXCEPT !.pc = "raise"]

\* mutant: the iteration cap tested with <= (one pass too many)
EnBucle_inclusive(slf, ll) ==
    ll.iteracion <= slf.max_iteraciones /\ Less(slf.tolerancia, ll.error)

\* the while condition shared by the three methods
EnBucle(slf, ll) ==
    ll.iteracion < slf.max_iteraciones /\ Less(slf.tolerancia, ll.error)

\* mutant: the convergence flag of the final return inverted (error >= tolerancia)
ResultadoFinal_invertido(slf, ll, raiz) ==
    Resultado(raiz, ll.iteracion, LessEq(slf.tolerancia, ll.error), ll.error,
              ll.historial_x, ll.historial_error,
              IF LessEq(slf.tolerancia, ll.error) THEN MSG_EXITO ELSE MSG_MAX_ITER)

\* mutant: the final return always worded as the iteration cap
ResultadoFinal_mensaje_fijo(slf, ll, raiz) ==
    Resultado(raiz, ll.iteracion, LessEq(ll.error, slf.tolerancia), ll.error,
              ll.historial_x, ll.historial_error, MSG_MAX_ITER)

\* the return after the loop, shared in shape by the three methods
ResultadoFinal(slf, ll, raiz) ==
    Resultado(raiz, ll.iteracion, LessEq(ll.error, slf.tolerancia), ll.error,
              ll.historial_x, ll.historial_error,
              IF LessEq(ll.error, slf.tolerancia) THEN MSG_EXITO ELSE MSG_MAX_ITER)

(***************************************************************************)
(* biseccion                                                               *)
(***************************************************************************)
\* mutant: the sign test strict (> 0), letting an interval end that is a
\* root into the loop
biseccion_precondicion_estricta(slf, ll) ==
    LET fa == Call(ll.funcion, ll.a)
        fb == Call(ll.funcion, ll.b)
    IN  IF fa = Raise \/ fb = Raise THEN Raised(ll)
        ELSE IF ProdSign(fa, fb) > 0
        THEN Return(ll, Resultado(None, 0, FALSE, Inf, <<>>, <<>>, MSG_SIN_RAIZ))
        ELSE [ll EXCEPT !.pc = "bucle"]

biseccion_precondicion(slf, ll) ==
    LET fa == Call(ll.funcion, ll.a)
        fb == Call(ll.funcion, ll.b)
    IN  IF fa = Raise \/ fb = Raise THEN Raised(ll)
        ELSE IF ProdSign(fa, fb) >= 0
        THEN Return(ll, Resultado(None, 0, FALSE, Inf, <<>>, <<>>, MSG_SIN_RAIZ))
        ELSE [ll EXCEPT !.pc = "bucle"]

\* mutant: the step error first measured one pass late (iteracion > 1)
biseccion_iteracion_error_tardio(slf, ll) ==
    LET c  == Half(Add(ll.a, ll.b))
        hx == Append(ll.historial_x, c)
        error == IF ll.iteracion > 1 THEN Abs(Sub(c, ll.x_anterior)) ELSE ll.error
        he == Append(ll.historial_error, error)
        l1 == [ll EXCEPT !.historial_x = hx, !.error = error, !.historial_error = he]
        fc == Call(ll.funcion, c)
        fa == Call(ll.funcion, ll.a)
    IN  IF fc = Raise THEN Raised(l1)
        ELSE IF Less(Abs(fc), slf.tolerancia)
        THEN Return(l1, Resultado(c, ll.iteracion + 1, TRUE, Abs(fc), hx, he, MSG_EXITO))
        ELSE IF fa = Raise THEN Raised(l1)
        ELSE [l1 EXCEPT !.a = IF ProdSign(fa, fc) < 0 THEN ll.a ELSE c,
                        !.b = IF ProdSign(fa, fc) < 0 THEN c ELSE ll.b,
                        !.x_anterior = c,
                        !.iteracion = ll.iteracion + 1]

\* mutant: the interval update inverted (the half without the sign change kept)
biseccion_iteracion_invertida(slf, ll) ==
    LET c  == Half(Add(ll.a, ll.b))
        hx == Append(ll.historial_x, c)
        error == IF ll.iteracion > 0 THEN Abs(Sub(c, ll.x_anterior)) ELSE ll.error
        he == Append(ll.historial_error, error)
        l1 == [ll EXCEPT !.historial_x = hx, !.error = error, !.historial_error = he]
        fc == Call(ll.funcion, c)
        fa == Call(ll.funcion, ll.a)
    IN  IF fc = Raise THEN Raised(l1)
        ELSE IF Less(Abs(fc), slf.tolerancia)
        THEN Return(l1, Resultado(c, ll.iteracion + 1, TRUE, Abs(fc), hx, he, MSG_EXITO))
        ELSE IF fa = Raise THEN Raised(l1)
        ELSE [l1 EXCEPT !.a = IF ProdSign(fa, fc) < 0 THEN c ELSE ll.a,
                        !.b = IF ProdSign(fa, fc) < 0 THEN ll.b ELSE c,
                        !.x_anterior = c,
                        !.iteracion = ll.iteracion + 1]

\* mutant: the early return counting the passes before the current one
biseccion_iteracion_cuenta_corta(slf, ll) ==
    LET c  == Half(Add(ll.a, ll.b))
        hx == Append(ll.historial_x, c)
        error == IF ll.iteracion > 0 THEN Abs(Sub(c, ll.x_anterior)) ELSE ll.error
        he == Append(ll.historial_error, error)
        l1 == [ll EXCEPT !.historial_x = hx, !.error = error, !.historial_error = he]
        fc == Call(ll.funcion, c)
        fa == Call(ll.funcion, ll.a)
    IN  IF fc = Raise THEN Raised(l1)
        ELSE IF Less(Abs(fc), slf.tolerancia)
        THEN Return(l1, Resultado(c, ll.iteracion, TRUE, Abs(fc), hx, he, MSG_EXITO))
        ELSE IF fa = Raise THEN Raised(l1)
        ELSE [l1 EXCEPT !.a = IF ProdSign(fa, fc) < 0 THEN ll.a ELSE c,
                        !.b = IF ProdSign(fa, fc) < 0 THEN c ELSE ll.b,
                        !.x_anterior = c,
                        !.iteracion = ll.iteracion + 1]

biseccion_iteracion(slf, ll) ==
    LET c  == Half(Add(ll.a, ll.b))
        hx == Append(ll.historial_x, c)
        error == IF ll.iteracion > 0 THEN Abs(Sub(c, ll.x_anterior)) ELSE ll.error
        he == Append(ll.historial_error, error)
        l1 == [ll EXCEPT !.historial_x = hx, !.error = error, !.historial_error = he]
        fc == Call(ll.funcion, c)
        fa == Call(ll.funcion, ll.a)
    IN  IF fc = Raise THEN Raised(l1)
        ELSE IF Less(Abs(fc), slf.tolerancia)
        THEN Return(l1, Resultado(c, ll.iteracion + 1, TRUE, Abs(fc), hx, he, MSG_EXITO))
        ELSE IF fa = Raise THEN Raised(l1)
        ELSE [l1 EXCEPT !.a = IF ProdSign(fa, fc) < 0 THEN ll.a ELSE c,
                        !.b = IF ProdSign(fa, fc) < 0 THEN c ELSE ll.b,
                        !.x_anterior = c,
                        !.iteracion = ll.iteracion + 1]

\* mutant: the last midpoint of the loop returned in place of the midpoint
\* of the final interval
biseccion_final_ultimo_punto(slf, ll) ==
    Return(ll, ResultadoFinal(slf, ll, ll.x_anterior))

biseccion_final(slf, ll) ==
    Return(ll, ResultadoFinal(slf, ll, Half(Add(ll.a, ll.b))))

(***************************************************************************)
(* newton_raphson                                                          *)
(***************************************************************************)
\* mutant: the derivative return counting the pass it is in
newton_iteracion_cuenta_larga(slf, ll) ==
    LET fx  == Call(ll.funcion, ll.x_actual)
        fpx == Call(ll.derivada, ll.x_actual)
    IN  IF fx = Raise \/ fpx = Raise THEN Raised(ll)
        ELSE IF Less(Abs(fpx), DERIVADA_MINIMA)
        THEN Return(ll, Resultado(ll.x_actual, ll.iteracion + 1, FALSE, Inf,
                                  ll.historial_x, ll.historial_error, MSG_DERIVADA))
        ELSE LET x_nuevo == Sub(ll.x_actual, Div(fx, fpx))
                 error == Abs(Sub(x_nuevo, ll.x_actual))
                 hx == Append(ll.historial_x, x_nuevo)
                 he == Append(ll.historial_error, error)
                 l1 == [ll EXCEPT !.historial_x = hx, !.error = error,
                                  !.historial_error = he]
                 fn == Call(ll.funcion, x_nuevo)
             IN  IF fn = Raise THEN Raised(l1)
                 ELSE IF Less(Abs(fn), slf.tolerancia)
                 THEN Return(l1, Resultado(x_nuevo, ll.iteracion + 1, TRUE, error,
                                           hx, he, MSG_EXITO))
                 ELSE [l1 EXCEPT !.x_actual = x_nuevo, !.iteracion = ll.iteracion + 1]

newton_iteracion(slf, ll) ==
    LET fx  == Call(ll.funcion, ll.x_actual)
        fpx == Call(ll.derivada, ll.x_actual)
    IN  IF fx = Raise \/ fpx = Raise THEN Raised(ll)
        ELSE IF Less(Abs(fpx), DERIVADA_MINIMA)
        THEN Return(ll, Resultado(ll.x_actual, ll.iteracion, FALSE, Inf,
                                  ll.historial_x, ll.historial_error, MSG_DERIVADA))
        ELSE LET x_nuevo == Sub(ll.x_actual, Div(fx, fpx))
                 error == Abs(Sub(x_nuevo, ll.x_actual))
                 hx == Append(ll.historial_x, x_nuevo)
                 he == Append(ll.historial_error, error)
                 l1 == [ll EXCEPT !.historial_x = hx, !.error = error,
                                  !.historial_error = he]
                 fn == Call(ll.funcion, x_nuevo)
             IN  IF fn = Raise THEN Raised(l1)
                 ELSE IF Less(Abs(fn), slf.tolerancia)
                 THEN Return(l1, Resultado(x_nuevo, ll.iteracion + 1, TRUE, error,
                                           hx, he, MSG_EXITO))
                 ELSE [l1 EXCEPT !.x_actual = x_nuevo, !.iteracion = ll.iteracion + 1]

newton_final(slf, ll) == Return(ll, ResultadoFinal(slf, ll, ll.x_actual))

(***************************************************************************)
(* punto_fijo                                                              *)
(***************************************************************************)
\* mutant: the divergence test left out
punto_fijo_iteracion_sin_guardia(slf, ll) ==
    LET x_nuevo == Call(ll.g_funcion, ll.x_actual)
    IN  IF x_nuevo = Raise THEN Raised(ll)
        ELSE LET error == Abs(Sub(x_nuevo, ll.x_actual))
                 hx == Append(ll.historial_x, x_nuevo)
                 he == Append(ll.historial_error, error)
                 l1 == [ll EXCEPT !.historial_x = hx, !.error = error,
                                  !.historial_error = he]
             IN  IF Less(error, slf.tolerancia)
                 THEN Return(l1, Resultado(x_nuevo, ll.iteracion + 1, TRUE, error,
                                           hx, he, MSG_EXITO))
                 ELSE [l1 EXCEPT !.x_actual = x_nuevo, !.iteracion = ll.iteracion + 1]

\* mutant: the step error measured from the seed
punto_fijo_iteracion_error_inicial(slf, ll) ==
    LET x_nuevo == Call(ll.g_funcion, ll.x_actual)
    IN  IF x_nuevo = Raise THEN Raised(ll)
        ELSE LET error == Abs(Sub(x_nuevo, ll.x0))
                 hx == Append(ll.historial_x, x_nuevo)
                 he == Append(ll.historial_error, error)
                 l1 == [ll EXCEPT !.historial_x = hx, !.error = error,
                                  !.historial_error = he]
             IN  IF Less(error, slf.tolerancia)
                 THEN Return(l1, Resultado(x_nuevo, ll.iteracion + 1, TRUE, error,
                                           hx, he, MSG_EXITO))
                 ELSE IF Less(LIMITE_DIVERGENCIA, Abs(x_nuevo))
                 THEN Return(l1, Resultado(x_nuevo, ll.iteracion + 1, FALSE, Inf,
                                           hx, he, MSG_DIVERGENTE))
                 ELSE [l1 EXCEPT !.x_actual = x_nuevo, !.iteracion = ll.iteracion + 1]

punto_fijo_iteracion(slf, ll) ==
    LET x_nuevo == Call(ll.g_funcion, ll.x_actual)
    IN  IF x_nuevo = Raise THEN Raised(ll)
        ELSE LET error == Abs(Sub(x_nuevo, ll.x_actual))
                 hx == Append(ll.historial_x, x_nuevo)
                 he == Append(ll.historial_error, error)
                 l1 == [ll EXCEPT !.historial_x = hx, !.error = error,
                                  !.historial_error = he]
             IN  IF Less(error, slf.tolerancia)
                 THEN Return(l1, Resultado(x_nuevo, ll.iteracion + 1, TRUE, error,
                                           hx, he, MSG_EXITO))
                 ELSE IF Less(LIMITE_DIVERGENCIA, Abs(x_nuevo))
                 THEN Return(l1, Resultado(x_nuevo, ll.iteracion + 1, FALSE, Inf,
                                           hx, he, MSG_DIVERGENTE))
                 ELSE [l1 EXCEPT !.x_actual = x_nuevo, !.iteracion = ll.iteracion + 1]

punto_fijo_final(slf, ll) == Return(ll, ResultadoFinal(slf, ll, ll.x_actual))

(***************************************************************************)
(* analizar_convergencia.  The order estimate is a quotient of logarithms  *)
(* of quotients of errors; for errors that are powers of two it is the     *)
(* quotient of two integers, kept as a fraction n / d in lowest terms.     *)
(***************************************************************************)
TIPO_NO_CONVERGENTE == "No convergente"

TIPO_LINEAL == "Lineal"

TIPO_CUADRATICA == "Cuadratica"

TIPO_SUPERLINEAL == "Superlineal"

TIPO_RAPIDA == "Rapida"

TIPO_MODERADA == "Moderada"

TIPO_LENTA == "Lenta"

RECURSIVE MCD(_, _)
MCD(a, b) == IF b = 0 THEN a ELSE MCD(b, a % b)

\* n / d for integers n and d # 0, in lowest terms with a positive denominator
Racional(n, d) ==
    LET g == MCD(AbsInt(n), AbsInt(d))
    IN  [k |-> "rac", n |-> (SgnInt(d) * n) \div g, d |-> AbsInt(d) \div g]

SumaRacional(p, q) == Racional(p.n * q.d + q.n * p.d, p.d * q.d)

RacionalMenor(p, q) == p.n * q.d < q.n * p.d

\* 1.5 and 2.5 of the order test
ORDEN_LINEAL == Racional(3, 2)

ORDEN_CUADRATICA == Racional(5, 2)

\* 0.1 of the factor test, to 30 significant bits: 858993459 * 2^-33
FACTOR_RAPIDA == [k |-> "num", m |-> 858993459, e |-> -33]

\* 0.5 of the factor test
FACTOR_MODERADA == Norm(1, -1)

\* math.log(x) in units of log 2, for x a power of two; the unit cancels in
\* the quotient of two logarithms
Log2(x) == x.e

\* truth value of a number or None in an if: None and 0.0 are false
Verdadero(x) == x # None /\ x # Zero

Analisis(tipo_convergencia, orden_convergencia, factor_convergencia) ==
    [tipo_convergencia |-> tipo_convergencia,
     orden_convergencia |-> orden_convergencia,
     factor_convergencia |-> factor_convergencia]

SinAnalisis == Analisis("", None, None)

\* the frame of analizar_convergencia(resultado) at its first statement
LlamadaAnalisis(resultado) ==
    [resultado |-> resultado, pc |-> "inicio", valor |-> SinAnalisis]

\* the pass of the loop of line 301 at errores[i] (i counted from 1) meets
\* the test of line 302
TresPositivos(errores, i) ==
    /\ Less(Zero, errores[i])
    /\ Less(Zero, errores[i + 1])
    /\ Less(Zero, errores[i - 1])

\* line 303: Raise when the logarithm in the denominator is 0
ratio(errores, i) ==
    LET numerador   == Log2(Div(errores[i + 1], errores[i]))
        denominador == Log2(Div(errores[i], errores[i - 1]))
    IN  IF denominador = 0 THEN Raise ELSE Racional(numerador, denominador)

\* the list ratios as the passes i, i + 1, ... of the loop build it
RECURSIVE ratios(_, _)
ratios(errores, i) ==
    IF i > Len(errores) - 1 THEN <<>>
    ELSE IF TresPositivos(errores, i)
    THEN <<ratio(errores, i)>> \o ratios(errores, i + 1)
    ELSE ratios(errores, i + 1)

RECURSIVE Suma(_)
Suma(lista) ==
    IF lista = <<>> THEN Racional(0, 1)
    ELSE SumaRacional(Head(lista), Suma(Tail(lista)))

\* mutant: the sum of the ratios taken for their mean
np_mean_suma(lista) == Suma(lista)

np_mean(lista) == Racional(Suma(lista).n, Suma(lista).d * Len(lista))

\* lines 297-322.  The value returned by line 316, or SinAnalisis when the
\* block is skipped, ends without returning, or is left through its except
estimar_orden(errores) ==
    IF Len(errores) < 3 THEN SinAnalisis
    ELSE LET rs == ratios(errores, 2)
         IN  IF \E j \in 1 .. Len(rs) : rs[j] = Raise THEN SinAnalisis
             ELSE IF rs = <<>> THEN SinAnalisis
             ELSE LET orden_estimado == np_mean(rs)
                      tipo == IF RacionalMenor(orden_estimado, ORDEN_LINEAL)
                              THEN TIPO_LINEAL
                              ELSE IF RacionalMenor(orden_estimado, ORDEN_CUADRATICA)
                              THEN TIPO_CUADRATICA
                              ELSE TIPO_SUPERLINEAL
                      factor == Div(errores[Len(errores)], errores[Len(errores) - 1])
                  IN  IF factor = Raise THEN SinAnalisis
                      ELSE Analisis(tipo, orden_estimado, factor)

\* lines 324-338, outside the try: the division of line 325 raises out of
\* the method when errores[-2] is 0
analisis_basico(an, errores) ==
    LET factor == IF Len(errores) >= 2
                  THEN Div(errores[Len(errores)], errores[Len(errores) - 1])
                  ELSE None
        tipo == IF Verdadero(factor) /\ Less(factor, FACTOR_RAPIDA) THEN TIPO_RAPIDA
                ELSE IF Verdadero(factor) /\ Less(factor, FACTOR_MODERADA)
                THEN TIPO_MODERADA
                ELSE TIPO_LENTA
    IN  IF factor = Raise THEN [an EXCEPT !.pc = "raise"]
        ELSE [an EXCEPT !.pc = "return", !.valor = Analisis(tipo, None, factor)]

\* mutant: the guard of line 287 asking for one entry only
analizar_convergencia_guardia_corta(an) ==
    IF ~an.resultado.convergencia \/ Len(an.resultado.historial_error) < 1
    THEN [an EXCEPT !.pc = "return",
                    !.valor = Analisis(TIPO_NO_CONVERGENTE, None, None)]
    ELSE LET errores  == Tail(an.resultado.historial_error)
             estimado == estimar_orden(errores)
         IN  IF estimado # SinAnalisis
             THEN [an EXCEPT !.pc = "return", !.valor = estimado]
             ELSE analisis_basico(an, errores)

analizar_convergencia(an) ==
    IF ~an.resultado.convergencia \/ Len(an.resultado.historial_error) < 2
    THEN [an EXCEPT !.pc = "return",
                    !.valor = Analisis(TIPO_NO_CONVERGENTE, None, None)]
    ELSE LET errores  == Tail(an.resultado.historial_error)
             estimado == estimar_orden(errores)
         IN  IF estimado # SinAnalisis
             THEN [an EXCEPT !.pc = "return", !.valor = estimado]
             ELSE analisis_basico(an, errores)

(***************************************************************************)
(* Inputs                                                                  *)
(***************************************************************************)
MaxIter == 5

\* calls of one method with the same arguments on one instance
MaxLlamadas == 2

\* tolerances of the bounded runs: 1/4 and 1
Tolerancias == {Norm(1, -2), Norm(1, 0)}

Iteraciones == 1 .. MaxIter

Instancias == {MetodosNumericos(t, n) : t \in Tolerancias, n \in Iteraciones}

N(i) == Int2Num(i)

\* interval ends of the bounded bisection runs (a >= b included: the method
\* does not check the order)
Extremos == {N(0), N(1), N(2), N(4)}

\* funcion_objetivo of a hand of 19, 8x - 3, x^2 - 2, and 8x - 3 raising at 2
FuncionesBiseccion ==
    {Metodo("funcion_objetivo", BlackjackMath(19, 21)),
     Polinomio(Zero, N(8), N(-3), None),
     Polinomio(N(1), Zero, N(-2), None),
     Polinomio(Zero, N(8), N(-3), N(2))}

\* the objective of a hand of 10 and of 19, x - 1/2 and (x - 2)^2
FuncionesNewton ==
    {Metodo("funcion_objetivo", BlackjackMath(10, 21)),
     Metodo("funcion_objetivo", BlackjackMath(19, 21)),
     Polinomio(Zero, N(1), Norm(-1, -1), None),
     Polinomio(N(1), N(-4), N(4), None)}

\* x^2 + 1, whose Newton step from 1 or -1 lands on the critical point 0, and
\* the same function raising at 0
FuncionesCriticas ==
    {Polinomio(N(1), Zero, N(1), None),
     Polinomio(N(1), Zero, N(1), Zero)}

SemillasCriticas == {N(0), N(1), N(-1)}

Semillas == {N(0), N(1), N(2), N(3), N(11)}

\* g of a hand of 10 and of 19, 2x, x/2 + 1, -x, and 2x raising at 4
FuncionesPuntoFijo ==
    {Metodo("funcion_punto_fijo", BlackjackMath(10, 21)),
     Metodo("funcion_punto_fijo", BlackjackMath(19, 21)),
     Polinomio(Zero, N(2), Zero, None),
     Polinomio(Zero, Norm(1, -1), N(1), None),
     Polinomio(Zero, N(-1), Zero, None),
     Polinomio(Zero, N(2), Zero, N(4))}

\* runs around the divergence limit: 2x, the constant 2^34 and the identity,
\* from 0, 2^33 and 2^34
FuncionesGrandes ==
    {Polinomio(Zero, N(2), Zero, None),
     Polinomio(Zero, Zero, Norm(1, 34), None),
     Polinomio(Zero, N(1), Zero, None)}

SemillasGrandes == {Zero, Norm(1, 33), Norm(1, 34)}

\* seeds beyond the 53 bits of a double's mantissa, for the linear objective
SemillasLejanas == {Norm(1, 60), Norm(-1, 60)}

FuncionesLineales ==
    {Metodo("funcion_objetivo", BlackjackMath(10, 21)),
     Metodo("funcion_objetivo", BlackjackMath(19, 21))}

LlamadasAcotadas ==
    {LlamadaBiseccion(f, a, b) : f \in FuncionesBiseccion, a \in Extremos, b \in Extremos}
    \cup {LlamadaNewton(f, Derivada(f), x) : f \in FuncionesNewton, x \in Semillas}
    \cup {LlamadaNewton(f, Derivada(f), x) : f \in FuncionesCriticas, x \in SemillasCriticas}
    \cup {LlamadaPuntoFijo(g, x) : g \in FuncionesPuntoFijo, x \in Semillas}
    \cup {LlamadaPuntoFijo(g, x) : g \in FuncionesGrandes, x \in SemillasGrandes}
    \cup {LlamadaNewton(f, Derivada(f), x) : f \in FuncionesLineales, x \in SemillasLejanas}

\* CASOS_PRUEBA_PREDEFINIDOS: <<valor_cartas, objetivo, x0, a, b>>, each with
\* tolerancia 1e-6 and max_iter 100
CASOS_PRUEBA_PREDEFINIDOS == {<<10, 21, 11, 0, 20>>, <<6, 21, 15, 0, 20>>, <<19, 21, 2, 0, 5>>}

LlamadasCaso(c) ==
    LET bj == BlackjackMath(c[1], c[2])
    IN  {LlamadaBiseccion(Metodo("funcion_objetivo", bj), N(c[4]), N(c[5])),
         LlamadaNewton(Metodo("funcion_objetivo", bj), Metodo("derivada_funcion", bj), N(c[3])),
         LlamadaPuntoFijo(Metodo("funcion_punto_fijo", bj), N(c[3]))}

\* g(x) = 2x from x0 = 1 with room for the 34 doublings that pass 1e10
InstanciasDivergencia ==
    {MetodosNumericos(t, n) : t \in {Norm(1, -2), TOL_DEFECTO}, n \in {34, 35, MAX_ITER_DEFECTO}}

LlamadaDivergencia == LlamadaPuntoFijo(Polinomio(Zero, N(2), Zero, None), N(1))

\* punto_fijo runs around the divergence limit under a tolerancia of 2^33,
\* where a step of exactly tolerancia lands above 1e10
InstanciasUmbral == {MetodosNumericos(Norm(1, 33), n) : n \in Iteraciones}

LlamadasUmbral ==
    {LlamadaPuntoFijo(g, x) : g \in FuncionesGrandes, x \in SemillasGrandes}

\* biseccion on intervals of one, two and four smallest doubles above 0,
\* for 2^1000 * x - 2^-75 (sign change between 0 and 2^-1074), under a
\* tolerancia of 2^-76
InstanciasSubnormales == {MetodosNumericos(Norm(1, -76), n) : n \in Iteraciones}

LlamadasSubnormales ==
    {LlamadaBiseccion(Polinomio(Zero, Norm(1, 1000), Norm(-1, -75), None), Zero, b) :
        b \in {MENOR_DOBLE, Mul(N(2), MENOR_DOBLE), Mul(N(4), MENOR_DOBLE)}}

\* no call of analizar_convergencia in progress
SinLlamadaAnalisis == [LlamadaAnalisis(SinResultado) EXCEPT !.pc = "inactiva"]

Init ==
    /\ anteriores = <<>>
    /\ analisis = SinLlamadaAnalisis
    /\ concurrentes = <<>>
    /\ \/ self \in Instancias /\ llamada \in LlamadasAcotadas
       \/ /\ self = MetodosNumericos(TOL_DEFECTO, MAX_ITER_DEFECTO)
          /\ \E c \in CASOS_PRUEBA_PREDEFINIDOS : llamada \in LlamadasCaso(c)
       \/ self \in InstanciasDivergencia /\ llamada = LlamadaDivergencia
       \/ self \in InstanciasUmbral /\ llamada \in LlamadasUmbral
       \/ self \in InstanciasSubnormales /\ llamada \in LlamadasSubnormales

(***************************************************************************)
(* Actions: one per step of a call                                         *)
(***************************************************************************)
BiseccionPrecondicion ==
    /\ llamada.metodo = "biseccion" /\ llamada.pc = "precondicion"
    /\ llamada' = biseccion_precondicion(self, llamada)
    /\ UNCHANGED <<self, anteriores, analisis, concurrentes>>

BiseccionIteracion ==
    /\ llamada.metodo = "biseccion" /\ llamada.pc = "bucle"
    /\ EnBucle(self, llamada)
    /\ llamada' = biseccion_iteracion(self, llamada)
    /\ UNCHANGED <<self, anteriores, analisis, concurrentes>>

BiseccionFinal ==
    /\ llamada.metodo = "biseccion" /\ llamada.pc = "bucle"
    /\ ~EnBucle(self, llamada)
    /\ llamada' = biseccion_final(self, llamada)
    /\ UNCHANGED <<self, anteriores, analisis, concurrentes>>

NewtonIteracion ==
    /\ llamada.metodo = "newton_raphson" /\ llamada.pc = "bucle"
    /\ EnBucle(self, llamada)
    /\ llamada' = newton_iteracion(self, llamada)
    /\ UNCHANGED <<self, anteriores, analisis, concurrentes>>

NewtonFinal ==
    /\ llamada.metodo = "newton_raphson" /\ llamada.pc = "bucle"
    /\ ~EnBucle(self, llamada)
    /\ llamada' = newton_final(self, llamada)
    /\ UNCHANGED <<self, anteriores, analisis, concurrentes>>

PuntoFijoIteracion ==
    /\ llamada.metodo = "punto_fijo" /\ llamada.pc = "bucle"
    /\ EnBucle(self, llamada)
    /\ llamada' = punto_fijo_iteracion(self, llamada)
    /\ UNCHANGED <<self, anteriores, analisis, concurrentes>>

PuntoFijoFinal ==
    /\ llamada.metodo = "punto_fijo" /\ llamada.pc = "bucle"
    /\ ~EnBucle(self, llamada)
    /\ llamada' = punto_fijo_final(self, llamada)
    /\ UNCHANGED <<self, anteriores, analisis, concurrentes>>

\* the caller calls the method again with the same arguments once the call
\* has returned
OtraLlamada ==
    /\ llamada.pc = "return"
    /\ Len(anteriores) < MaxLlamadas - 1
    /\ anteriores' = Append(anteriores, llamada.resultado)
    /\ llamada' = NuevaLlamada(llamada)
    /\ UNCHANGED <<self, analisis, concurrentes>>

Next ==
    \/ BiseccionPrecondicion
    \/ BiseccionIteracion
    \/ BiseccionFinal
    \/ NewtonIteracion
    \/ NewtonFinal
    \/ PuntoFijoIteracion
    \/ PuntoFijoFinal
    \/ OtraLlamada

Spec == Init /\ [][Next]_vars

\* one step of the call in progress
Paso ==
    \/ BiseccionPrecondicion
    \/ BiseccionIteracion
    \/ BiseccionFinal
    \/ NewtonIteracion
    \/ NewtonFinal
    \/ PuntoFijoIteracion
    \/ PuntoFijoFinal

\* the call in progress has a statement left to execute
Activa(ll) == ll.pc \in {"precondicion", "bucle"}

\* Paso can be taken exactly while the call is active
PasoHabilitado == Activa(llamada) <=> ENABLED <<Paso>>_vars

\* a call that has started keeps running: the interpreter executes the next
\* statement of the method as long as there is one.  This is weak fairness
\* of Paso, with ENABLED <<Paso>>_vars written as Activa(llamada), which
\* PasoHabilitado states it to be.
Justicia == []<>(~Activa(llamada)) \/ []<><<Paso>>_vars

SpecJusto == Spec /\ Justicia

(***************************************************************************)
(* Several calls in progress on one instance, their statements interleaved *)
(***************************************************************************)
\* most calls in progress besides llamada
MaxConcurrentes == 2

\* the statement at the position of frame ll, executed on instance slf
PasoDe(slf, ll) ==
    IF ll.pc = "precondicion" THEN biseccion_precondicion(slf, ll)
    ELSE IF ll.metodo = "biseccion"
    THEN (IF EnBucle(slf, ll) THEN biseccion_iteracion(slf, ll)
          ELSE biseccion_final(slf, ll))
    ELSE IF ll.metodo = "newton_raphson"
    THEN (IF EnBucle(slf, ll) THEN newton_iteracion(slf, ll)
          ELSE newton_final(slf, ll))
    ELSE (IF EnBucle(slf, ll) THEN punto_fijo_iteracion(slf, ll)
          ELSE punto_fijo_final(slf, ll))

\* the call of frame ll run alone from where it stands until it returns or
\* raises
RECURSIVE Ejecutar(_, _)
Ejecutar(slf, ll) == IF Activa(ll) THEN Ejecutar(slf, PasoDe(slf, ll)) ELSE ll

\* 8x - 3 on [0, 1], (x - 2)^2 from 0 and x/2 + 1 from 0
LlamadasConcurrentes ==
    {LlamadaBiseccion(Polinomio(Zero, N(8), N(-3), None), N(0), N(1)),
     LlamadaNewton(Polinomio(N(1), N(-4), N(4), None),
                   Derivada(Polinomio(N(1), N(-4), N(4), None)), N(0)),
     LlamadaPuntoFijo(Polinomio(Zero, Norm(1, -1), N(1), None), N(0))}

InstanciasConcurrentes ==
    {MetodosNumericos(Norm(1, -2), 2), MetodosNumericos(Norm(1, -3), 3)}

InitConcurrente ==
    /\ anteriores = <<>>
    /\ analisis = SinLlamadaAnalisis
    /\ self \in InstanciasConcurrentes
    /\ llamada \in LlamadasConcurrentes
    /\ \E n \in 1 .. MaxConcurrentes : concurrentes \in [1 .. n -> LlamadasConcurrentes]

\* mutant: the iteration counter kept in one place for all the calls of the
\* instance
PasoConcurrente_contador_compartido ==
    \E i \in 1 .. Len(concurrentes) :
        /\ Activa(concurrentes[i])
        /\ concurrentes' = [concurrentes EXCEPT ![i] = PasoDe(self, @)]
        /\ llamada' = [llamada EXCEPT !.iteracion = PasoDe(self, concurrentes[i]).iteracion]
        /\ UNCHANGED <<self, anteriores, analisis>>

\* one of the other calls executes its next statement
PasoConcurrente ==
    \E i \in 1 .. Len(concurrentes) :
        /\ Activa(concurrentes[i])
        /\ concurrentes' = [concurrentes EXCEPT ![i] = PasoDe(self, @)]
        /\ UNCHANGED <<self, llamada, anteriores, analisis>>

NextConcurrente ==
    \/ BiseccionPrecondicion
    \/ BiseccionIteracion
    \/ BiseccionFinal
    \/ NewtonIteracion
    \/ NewtonFinal
    \/ PuntoFijoIteracion
    \/ PuntoFijoFinal
    \/ PasoConcurrente

SpecConcurrente == InitConcurrente /\ [][NextConcurrente]_vars

(***************************************************************************)
(* analizar_convergencia applied to a result dict                          *)
(***************************************************************************)
\* longest historial_error of an analysed result
MaxErrores == 5

\* step errors of the analysed results: 0 and the powers of two from 1 down
\* to 1/16; the first entry of a history may also be the +inf of biseccion
ValoresError ==
    {Zero, Norm(1, 0), Norm(1, -1), Norm(1, -2), Norm(1, -3), Norm(1, -4)}

HistorialesError ==
    UNION {{h \in [1 .. n -> ValoresError \cup {Inf}] :
                \A i \in 2 .. n : h[i] \in ValoresError} : n \in 0 .. MaxErrores}

\* a result dict as analizar_convergencia reads it: convergencia and
\* historial_error
ResultadoAnalizado(convergencia, historial_error) ==
    Resultado(Zero, Len(historial_error), convergencia,
              IF historial_error = <<>> THEN Inf
              ELSE historial_error[Len(historial_error)],
              <<>>, historial_error,
              IF convergencia THEN MSG_EXITO ELSE MSG_MAX_ITER)

\* no solver call in progress
SinLlamada ==
    [LlamadaPuntoFijo(SinFuncion, None) EXCEPT !.metodo = "ninguno", !.pc = "inactiva"]

InitAnalisis ==
    /\ self = MetodosNumericos(TOL_DEFECTO, MAX_ITER_DEFECTO)
    /\ llamada = SinLlamada
    /\ anteriores = <<>>
    /\ concurrentes = <<>>
    /\ \E c \in BOOLEAN, h \in HistorialesError :
          analisis = LlamadaAnalisis(ResultadoAnalizado(c, h))

AnalizarConvergencia ==
    /\ analisis.pc = "inicio"
    /\ analisis' = analizar_convergencia(analisis)
    /\ UNCHANGED <<self, llamada, anteriores, concurrentes>>

NextAnalisis == AnalizarConvergencia

SpecAnalisis == InitAnalisis /\ [][NextAnalisis]_vars

\* every quotient whose logarithm line 303 takes is a power of two
LogaritmoExacto ==
    (analisis.pc = "inicio" /\ analisis.resultado.historial_error # <<>>)
    => LET errores == Tail(analisis.resultado.historial_error)
       IN  \A i \in 2 .. Len(errores) - 1 :
               TresPositivos(errores, i)
               => /\ Div(errores[i + 1], errores[i]).m = 1
                  /\ Div(errores[i], errores[i - 1]).m = 1

TypeOK ==
    /\ llamada.pc \in {"precondicion", "bucle", "return", "raise"}
    /\ llamada.iteracion \in 0 .. self.max_iteraciones

\* every quotient fx / fpx a Newton step is about to form is exact
DivisionExacta ==
    (llamada.metodo = "newton_raphson" /\ llamada.pc = "bucle")
    => LET fx  == Call(llamada.funcion, llamada.x_actual)
           fpx == Call(llamada.derivada, llamada.x_actual)
       IN  (fx # Raise /\ fpx # Raise /\ fpx.m # 0) => AbsInt(fx.m) % AbsInt(fpx.m) = 0

(***************************************************************************)
(* Properties                                                              *)
(***************************************************************************)
Fin == llamada.pc = "return"

R == llamada.resultado

Ultimo(seq) == seq[Len(seq)]

EsBiseccion == llamada.metodo = "biseccion"

EsNewton == llamada.metodo = "newton_raphson"

EsPuntoFijo == llamada.metodo = "punto_fijo"

\* the values of funcion at the two ends the call was given
FA0 == Call(llamada.funcion, llamada.arg_a)

FB0 == Call(llamada.funcion, llamada.arg_b)

\* C1: a biseccion call whose funcion(a) * funcion(b) >= 0 is past its first
\* statement only as a returned call, with raiz None, 0 iterations, no
\* convergence, error +inf, both histories empty and the no-root message,
\* and without having run the loop body.
C1_PrecondicionFallida ==
    (/\ EsBiseccion /\ llamada.pc # "precondicion"
     /\ FA0 # Raise /\ FB0 # Raise /\ ProdSign(FA0, FB0) >= 0)
    => /\ Fin
       /\ R = Resultado(None, 0, FALSE, Inf, <<>>, <<>>, MSG_SIN_RAIZ)
       /\ llamada.iteracion = 0
       /\ llamada.historial_x = <<>>

\* a returned call with f(a) * f(b) = 0 exactly (an interval end is a root)
C1_Witness ==
    /\ EsBiseccion /\ Fin /\ R.mensaje = MSG_SIN_RAIZ
    /\ FA0 # Raise /\ FB0 # Raise /\ ProdSign(FA0, FB0) = 0

\* C2: no call ends by an exception of the supplied function leaving the
\* solver: every call that evaluated a raising function still returns a result.
C2_SinExcepciones == llamada.pc # "raise"

\* C3: a returned result with convergencia True has a raiz, and either its
\* error is <= tolerancia or |funcion(raiz)| < tolerancia.
C3_Convergido ==
    (Fin /\ R.convergencia)
    => /\ R.raiz # None
       /\ \/ LessEq(R.error, self.tolerancia)
          \/ /\ ~EsPuntoFijo
             /\ Less(Abs(Call(llamada.funcion, R.raiz)), self.tolerancia)

\* a converged Newton result whose reported error is above the tolerance
C3_Witness ==
    /\ Fin /\ EsNewton /\ R.convergencia
    /\ Less(self.tolerancia, R.error)
    /\ Less(Abs(Call(llamada.funcion, R.raiz)), self.tolerancia)

\* every step error a result records is the +inf sentinel
SinErrorNumerico(res) ==
    \A i \in 1 .. Len(res.historial_error) : res.historial_error[i] = Inf

\* C4: the reported error is +inf exactly when convergencia is False and no
\* finite step error was computed during the run.
C4_ErrorInfinito ==
    Fin => ((R.error = Inf) <=> (~R.convergencia /\ SinErrorNumerico(R)))

\* C5: every returned result has 0 <= iteraciones <= max_iteraciones.
C5_Iteraciones ==
    Fin => (0 <= R.iteraciones /\ R.iteraciones <= self.max_iteraciones)

\* an early return in the last permitted pass: iteraciones = max_iteraciones
\* reported as iteracion + 1
C5_Witness ==
    /\ Fin /\ R.iteraciones = self.max_iteraciones
    /\ llamada.iteracion = self.max_iteraciones - 1
    /\ self.max_iteraciones > 1

\* ceil(log2((b - a) / tolerancia)) + 1 for a < b: the least n with
\* tolerancia * 2^n >= b - a, plus one
CotaBiseccion(a, b, tolerancia) ==
    LET d == Top(Sub(b, a)) - Top(tolerancia)
    IN  1 + CHOOSE n \in d - 1 .. d + 1 :
                /\ LessEq(Sub(b, a), Mul(tolerancia, Norm(1, n)))
                /\ Less(Mul(tolerancia, Norm(1, n - 1)), Sub(b, a))

\* a biseccion call on a total function with a < b, a sign change between the
\* ends, and max_iteraciones = ceil(log2((b - a) / tolerancia)) + 1
ConCotaBiseccion ==
    /\ EsBiseccion /\ llamada.funcion.polo = None
    /\ Less(llamada.arg_a, llamada.arg_b)
    /\ ProdSign(FA0, FB0) < 0
    /\ self.max_iteraciones = CotaBiseccion(llamada.arg_a, llamada.arg_b, self.tolerancia)

\* C6 as stated: every such call returns convergencia True, the case
\* b - a <= tolerancia (cap 1) included.
C6_CotaOriginal == (Fin /\ ConCotaBiseccion) => R.convergencia

\* C6, amended: every such call with b - a > tolerancia returns convergencia
\* True.
C6_Cota ==
    (Fin /\ ConCotaBiseccion
         /\ Less(self.tolerancia, Sub(llamada.arg_b, llamada.arg_a)))
    => R.convergencia

\* the cap met exactly: convergence by the step-error test at the loop exit
\* after max_iteraciones passes
C6_Witness ==
    /\ Fin /\ ConCotaBiseccion
    /\ Less(self.tolerancia, Sub(llamada.arg_b, llamada.arg_a))
    /\ R.convergencia
    /\ R.iteraciones = self.max_iteraciones
    /\ llamada.iteracion = self.max_iteraciones

\* f(x) = x - k with derivative 1: the objective of a hand, or the polynomial
\* 0*x*x + 1*x + c0
EsLineal(f) ==
    \/ f.tipo = "funcion_objetivo"
    \/ f.tipo = "polinomio" /\ f.coef[1] = Zero /\ f.coef[2] = N(1)

RaizLineal(f) ==
    IF f.tipo = "funcion_objetivo" THEN Sub(f.bj.objetivo, f.bj.valor_cartas)
    ELSE Neg(f.coef[3])

\* neither sum of x and y is rounded
SumaExacta(x, y) == ~Absorbe(x, y) /\ ~Absorbe(y, x)

\* the evaluation of the linear f at x and the Newton update x - f(x) / 1 are
\* computed without rounding
SinRedondeo(f, x) ==
    /\ IF f.tipo = "funcion_objetivo"
       THEN /\ SumaExacta(f.bj.valor_cartas, x)
            /\ SumaExacta(Add(f.bj.valor_cartas, x), f.bj.objetivo)
       ELSE SumaExacta(x, f.coef[3])
    /\ SumaExacta(x, Call(f, x))

NewtonLineal ==
    /\ EsNewton /\ EsLineal(llamada.funcion) /\ llamada.funcion.polo = None

UnaIteracion(k) == R.convergencia /\ R.iteraciones = 1 /\ R.raiz = k

\* C7 as stated: newton_raphson on f(x) = x - k with derivative 1 returns
\* convergencia True, iteraciones 1 and raiz k from every seed.
C7_NewtonLinealOriginal ==
    (Fin /\ NewtonLineal) => UnaIteracion(RaizLineal(llamada.funcion))

\* C7, amended: it does so from every seed x0 at which f(x0) and the update
\* x0 - f(x0) are computed without rounding.
C7_NewtonLineal ==
    (Fin /\ NewtonLineal /\ SinRedondeo(llamada.funcion, llamada.x0))
    => UnaIteracion(RaizLineal(llamada.funcion))

\* f(x) = 10 + x - 21 from x0 = 11: one iteration, raiz 11
C7_Witness ==
    /\ Fin /\ EsNewton
    /\ llamada.funcion = Metodo("funcion_objetivo", BlackjackMath(10, 21))
    /\ llamada.x0 = N(11)
    /\ R.iteraciones = 1 /\ R.raiz = N(11) /\ R.convergencia

\* a constant self-map: g of a hand, or the polynomial 0*x*x + 0*x + c0
EsConstante(g) ==
    \/ g.tipo = "funcion_punto_fijo"
    \/ g.tipo = "polinomio" /\ g.coef[1] = Zero /\ g.coef[2] = Zero

ValorConstante(g) ==
    IF g.tipo = "funcion_punto_fijo" THEN Sub(g.bj.objetivo, g.bj.valor_cartas)
    ELSE g.coef[3]

\* C8: punto_fijo on a constant g(x) = k with |k| <= 1e10 returns
\* convergencia True, raiz k and iteraciones 1 from every seed x0 # k.
C8_ConstanteUnaIteracion ==
    (/\ Fin /\ EsPuntoFijo /\ EsConstante(llamada.g_funcion)
     /\ llamada.g_funcion.polo = None
     /\ LessEq(Abs(ValorConstante(llamada.g_funcion)), LIMITE_DIVERGENCIA)
     /\ llamada.x0 # ValorConstante(llamada.g_funcion))
    => UnaIteracion(ValorConstante(llamada.g_funcion))

EsCasoBiseccion(c) ==
    /\ self = MetodosNumericos(TOL_DEFECTO, MAX_ITER_DEFECTO)
    /\ EsBiseccion
    /\ llamada.funcion = Metodo("funcion_objetivo", BlackjackMath(c[1], c[2]))
    /\ llamada.arg_a = N(c[4]) /\ llamada.arg_b = N(c[5])

\* C10: biseccion on each predefined case returns convergencia True with raiz
\* within tolerancia of raiz_esperada = objetivo - valor_cartas.
C10_CasosPredefinidos ==
    \A c \in CASOS_PRUEBA_PREDEFINIDOS :
        (Fin /\ EsCasoBiseccion(c))
        => /\ R.convergencia
           /\ LessEq(Abs(Sub(R.raiz, N(c[2] - c[1]))), self.tolerancia)

\* the case of the hand of 10 on [0, 20], returned after more than 20
\* halvings at an approximation that is not the exact root
C10_Witness ==
    /\ Fin /\ EsCasoBiseccion(<<10, 21, 11, 0, 20>>)
    /\ R.convergencia /\ R.iteraciones > 20 /\ R.raiz # N(11)

\* the call is a biseccion whose two end values are defined and have a
\* product >= 0: the precondition of line 34 fails
PrecondicionFalla ==
    EsBiseccion /\ FA0 # Raise /\ FB0 # Raise /\ ProdSign(FA0, FB0) >= 0

\* C12: every returned result has len(historial_x) >= len(historial_error);
\* a newton_raphson or punto_fijo result has historial_x[0] = x0 and
\* len(historial_x) = len(historial_error) + 1 on every return path; a
\* biseccion result of a failed precondition has both histories empty.
C12_Historiales ==
    Fin => /\ Len(R.historial_x) >= Len(R.historial_error)
           /\ (EsNewton \/ EsPuntoFijo)
              => /\ Len(R.historial_x) = Len(R.historial_error) + 1
                 /\ R.historial_x[1] = llamada.x0
           /\ PrecondicionFalla
              => (R.historial_x = <<>> /\ R.historial_error = <<>>)

\* a newton_raphson call returned through the derivative test after at
\* least one full step: the seed and one more iterate against one error
C12_Witness ==
    /\ Fin /\ EsNewton /\ R.mensaje = MSG_DERIVADA
    /\ Len(R.historial_error) >= 1
    /\ Len(R.historial_x) = Len(R.historial_error) + 1
    /\ R.historial_x[1] = llamada.x0

\* the messages the three methods put in a result
MENSAJES == {MSG_EXITO, MSG_MAX_ITER, MSG_SIN_RAIZ, MSG_DERIVADA, MSG_DIVERGENTE}

\* C13: the message of every returned result is exactly one of the outcome
\* messages, and it is the success message if and only if convergencia is
\* True.
C13_Mensaje ==
    Fin => /\ Cardinality({m \in MENSAJES : R.mensaje = m}) = 1
           /\ (R.mensaje = MSG_EXITO) <=> R.convergencia

\* a call returned at the iteration cap, not converged
C13_Witness ==
    /\ Fin /\ R.mensaje = MSG_MAX_ITER /\ ~R.convergencia
    /\ R.iteraciones = self.max_iteraciones

\* C18: in every biseccion call that has run at least one pass of the loop,
\* the two histories have equal length, historial_error[0] is +inf and every
\* later historial_error[i] is |historial_x[i] - historial_x[i-1]|; the
\* returned result carries these histories.
C18_HistorialBiseccion ==
    (EsBiseccion /\ Len(llamada.historial_x) >= 1)
    => LET hx == llamada.historial_x
           he == llamada.historial_error
       IN  /\ Len(hx) = Len(he)
           /\ he[1] = Inf
           /\ \A i \in 2 .. Len(he) : he[i] = Abs(Sub(hx[i], hx[i - 1]))
           /\ Fin => (R.historial_x = hx /\ R.historial_error = he)

\* a returned biseccion call of three passes or more, whose third error is
\* half the second
C18_Witness ==
    /\ Fin /\ EsBiseccion /\ Len(R.historial_error) >= 3
    /\ R.historial_error[1] = Inf
    /\ R.historial_error[3] = Abs(Sub(R.historial_x[3], R.historial_x[2]))
    /\ R.historial_error[3] = Half(R.historial_error[2])

\* C19: a pass of the biseccion loop (0-based index iteracion) whose midpoint
\* c has |funcion(c)| < tolerancia ends the call at once: convergencia True,
\* raiz = c = the last entry of historial_x, iteraciones = iteracion + 1, the
\* success message, and the interval [a, b] left as it was.
C19_RetornoInmediato ==
    [][LET c  == Half(Add(llamada.a, llamada.b))
           fc == Call(llamada.funcion, c)
       IN  (/\ EsBiseccion /\ llamada.pc = "bucle" /\ EnBucle(self, llamada)
            /\ fc # Raise /\ Less(Abs(fc), self.tolerancia))
           => /\ llamada'.pc = "return"
              /\ llamada'.resultado.convergencia
              /\ llamada'.resultado.raiz = c
              /\ Ultimo(llamada'.resultado.historial_x) = c
              /\ Len(llamada'.resultado.historial_x) = llamada.iteracion + 1
              /\ llamada'.resultado.iteraciones = llamada.iteracion + 1
              /\ llamada'.resultado.mensaje = MSG_EXITO
              /\ llamada'.a = llamada.a /\ llamada'.b = llamada.b]_vars

\* a biseccion call returned from its second pass or a later one at a
\* midpoint with |funcion(c)| < tolerancia, c still the midpoint of [a, b]
C19_Witness ==
    /\ Fin /\ EsBiseccion /\ R.convergencia
    /\ R.iteraciones = llamada.iteracion + 1 /\ R.iteraciones >= 2
    /\ R.raiz = Half(Add(llamada.a, llamada.b))
    /\ Less(Abs(Call(llamada.funcion, R.raiz)), self.tolerancia)

\* C20: when the biseccion loop ends by its condition (iteracion reached
\* max_iteraciones, or the last step error is <= tolerancia), the call
\* returns raiz = (a + b) / 2 of the interval as last updated, convergencia =
\* (last step error <= tolerancia), and the success message if convergent,
\* the iteration-cap message otherwise.
C20_SalidaDelBucle ==
    [][(EsBiseccion /\ llamada.pc = "bucle" /\ ~EnBucle(self, llamada))
       => LET ultimo == Ultimo(llamada.historial_error)
          IN  /\ \/ llamada.iteracion = self.max_iteraciones
                 \/ LessEq(ultimo, self.tolerancia)
              /\ llamada'.pc = "return"
              /\ llamada'.resultado.raiz = Half(Add(llamada.a, llamada.b))
              /\ llamada'.resultado.convergencia = LessEq(ultimo, self.tolerancia)
              /\ llamada'.resultado.mensaje =
                     IF LessEq(ultimo, self.tolerancia) THEN MSG_EXITO ELSE MSG_MAX_ITER]_vars

\* a biseccion call that left the loop by the step error before the cap and
\* returned the midpoint of the final interval, a point the loop never
\* evaluated
C20_Witness ==
    /\ Fin /\ EsBiseccion /\ R.iteraciones = llamada.iteracion
    /\ llamada.iteracion >= 1 /\ llamada.iteracion < self.max_iteraciones
    /\ R.convergencia /\ R.mensaje = MSG_EXITO
    /\ R.raiz = Half(Add(llamada.a, llamada.b))
    /\ R.raiz # Ultimo(R.historial_x)

A == analisis.resultado

V == analisis.valor

Analizado == analisis.pc = "return"

NoConvergente == Analisis(TIPO_NO_CONVERGENTE, None, None)

\* C14 as stated: analizar_convergencia returns 'No convergente' with orden
\* None and factor None whenever convergencia is False or
\* len(historial_error) <= 2.
C14_NoConvergenteOriginal ==
    (analisis.pc # "inicio"
     /\ (~A.convergencia \/ Len(A.historial_error) <= 2))
    => (Analizado /\ V = NoConvergente)

\* C14, amended: it does so whenever convergencia is False or
\* len(historial_error) < 2, the first entry counted.
C14_NoConvergente ==
    (analisis.pc # "inicio"
     /\ (~A.convergencia \/ Len(A.historial_error) < 2))
    => (Analizado /\ V = NoConvergente)

\* a converged result with a single recorded error, analysed as 'No
\* convergente'
C14_Witness ==
    /\ Analizado /\ A.convergencia /\ Len(A.historial_error) = 1
    /\ V = NoConvergente

\* C15: no call of analizar_convergencia on a result with boolean
\* convergencia and a finite list of non-negative errors ends by an
\* exception leaving the method.
C15_NuncaLevanta == analisis.pc # "raise"

\* errores = historial_error[1:] has three entries or more, the first
\* positive and each later one half the one before
ErroresMitad ==
    /\ Len(A.historial_error) >= 4
    /\ Less(Zero, A.historial_error[2])
    /\ \A i \in 3 .. Len(A.historial_error) :
           A.historial_error[i] = Half(A.historial_error[i - 1])

\* C16: for a converged result whose errors (at least three after the first
\* entry, so at least four in all when the first entry halves too) are
\* positive and each half the previous one, analizar_convergencia returns
\* 'Lineal' with orden_convergencia 1 and factor_convergencia 0.5.
C16_Lineal ==
    (analisis.pc # "inicio" /\ A.convergencia /\ ErroresMitad)
    => (Analizado /\ V = Analisis(TIPO_LINEAL, Racional(1, 1), Norm(1, -1)))

\* the history 1, 1/2, 1/4, 1/8, 1/16 of a converged result analysed as
\* linear of order 1 from two ratios
C16_Witness ==
    /\ Analizado /\ A.convergencia
    /\ A.historial_error = <<Norm(1, 0), Norm(1, -1), Norm(1, -2), Norm(1, -3), Norm(1, -4)>>
    /\ V.tipo_convergencia = TIPO_LINEAL
    /\ V.orden_convergencia = Racional(1, 1)
    /\ V.factor_convergencia = Norm(1, -1)

\* the call went past the guard of line 287 and the order estimate returned
\* nothing: lines 324-338 decide
RamaBasica ==
    /\ A.convergencia /\ Len(A.historial_error) >= 2
    /\ estimar_orden(Tail(A.historial_error)) = SinAnalisis

\* C17: a call that returns from the coarse branch has orden_convergencia
\* None and is classified by factor = errores[-1] / errores[-2] alone:
\* 'Rapida' for every factor < 0.1, zero included, 'Moderada' for
\* 0.1 <= factor < 0.5, 'Lenta' otherwise (no factor included).
C17_RamaBasica ==
    (Analizado /\ RamaBasica)
    => LET errores == Tail(A.historial_error)
           factor  == IF Len(errores) >= 2
                      THEN Div(errores[Len(errores)], errores[Len(errores) - 1])
                      ELSE None
           tipo    == IF factor # None /\ Less(factor, FACTOR_RAPIDA) THEN TIPO_RAPIDA
                      ELSE IF factor # None /\ Less(factor, FACTOR_MODERADA)
                      THEN TIPO_MODERADA
                      ELSE TIPO_LENTA
       IN  V = Analisis(tipo, None, factor)

\* C21: a pass of the newton_raphson loop that finds |derivada(x_actual)| <
\* 1e-15 ends the call without an update: convergencia False, error +inf,
\* the derivative message, raiz = x_actual, iteraciones = the passes
\* completed, and the histories as they were (nothing appended, so no
\* quotient by the derivative was formed).
C21_DerivadaDegenerada ==
    [][LET fx  == Call(llamada.funcion, llamada.x_actual)
           fpx == Call(llamada.derivada, llamada.x_actual)
       IN  (/\ EsNewton /\ llamada.pc = "bucle" /\ EnBucle(self, llamada)
            /\ fx # Raise /\ fpx # Raise /\ Less(Abs(fpx), DERIVADA_MINIMA))
           => /\ llamada'.pc = "return"
              /\ llamada'.resultado =
                     Resultado(llamada.x_actual, llamada.iteracion, FALSE, Inf,
                               llamada.historial_x, llamada.historial_error,
                               MSG_DERIVADA)
              /\ llamada.iteracion = Len(llamada.historial_error)
              /\ llamada'.historial_x = llamada.historial_x
              /\ llamada'.historial_error = llamada.historial_error]_vars

\* x^2 + 1 from a seed of magnitude 1: one step to the critical point 0,
\* where the call returns with the one completed step
C21_Witness ==
    /\ Fin /\ EsNewton /\ R.mensaje = MSG_DERIVADA
    /\ R.iteraciones = 1 /\ R.raiz = Zero /\ R.error = Inf
    /\ ~R.convergencia /\ Len(R.historial_x) = 2

\* some iterate of the call, the seed included, has |funcion(x)| < tolerancia
IteradoEnTolerancia ==
    \E i \in 1 .. Len(llamada.historial_x) :
        /\ Call(llamada.funcion, llamada.historial_x[i]) # Raise
        /\ Less(Abs(Call(llamada.funcion, llamada.historial_x[i])), self.tolerancia)

\* C22: a newton_raphson call that starts at or arrives at an iterate x with
\* |funcion(x)| < tolerancia returns convergencia True, also when the
\* derivative vanishes at x.
C22_MinimoEsExito ==
    (Fin /\ EsNewton /\ IteradoEnTolerancia) => R.convergencia

\* the iterate that follows x in the call: x - funcion(x) / derivada(x) for
\* newton_raphson, g_funcion(x) for punto_fijo
Siguiente(x) ==
    IF EsNewton
    THEN Sub(x, Div(Call(llamada.funcion, x), Call(llamada.derivada, x)))
    ELSE Call(llamada.g_funcion, x)

\* C23: in every newton_raphson and punto_fijo call, for every index i of
\* historial_error, historial_x[i+1] is the iterate that follows
\* historial_x[i] and historial_error[i] = |historial_x[i+1] - historial_x[i]|;
\* the returned result carries these histories.
C23_Historial ==
    (EsNewton \/ EsPuntoFijo)
    => LET hx == llamada.historial_x
           he == llamada.historial_error
       IN  /\ \A i \in 1 .. Len(he) :
                  /\ hx[i + 1] = Siguiente(hx[i])
                  /\ he[i] = Abs(Sub(hx[i + 1], hx[i]))
           /\ Fin => (R.historial_x = hx /\ R.historial_error = he)

\* a returned newton_raphson call of two steps or more with a last move
\* that is not zero
C23_Witness ==
    /\ Fin /\ EsNewton /\ Len(R.historial_error) >= 2
    /\ Ultimo(R.historial_x) = Siguiente(R.historial_x[Len(R.historial_x) - 1])
    /\ Ultimo(R.historial_error) # Zero
    /\ Ultimo(R.historial_error) =
           Abs(Sub(Ultimo(R.historial_x), R.historial_x[Len(R.historial_x) - 1]))

\* C24: in every returned result with a non-empty historial_error, the
\* 'error' field equals the last entry of historial_error.
C24_ErrorFinal ==
    (Fin /\ R.historial_error # <<>>) => R.error = Ultimo(R.historial_error)

\* C29: every returned result has iteraciones = len(historial_error); for
\* biseccion this is also len(historial_x), for newton_raphson and punto_fijo
\* len(historial_x) - 1.
C29_Conteo ==
    Fin => /\ R.iteraciones = Len(R.historial_error)
           /\ EsBiseccion => R.iteraciones = Len(R.historial_x)
           /\ (EsNewton \/ EsPuntoFijo) => R.iteraciones = Len(R.historial_x) - 1

\* results that count the pass they returned from: an early return of
\* biseccion with one more iteration than the loop counter
C29_Witness ==
    /\ Fin /\ EsBiseccion /\ R.iteraciones = llamada.iteracion + 1
    /\ R.iteraciones = Len(R.historial_error)
    /\ R.iteraciones = Len(R.historial_x)
    /\ R.iteraciones >= 2

\* C30 as stated: in every punto_fijo result with a non-empty
\* historial_error, convergencia is True if and only if the last entry of
\* historial_error is <= tolerancia.
C30_ConvergenciaOriginal ==
    (Fin /\ EsPuntoFijo /\ R.historial_error # <<>>)
    => (R.convergencia <=> LessEq(Ultimo(R.historial_error), self.tolerancia))

\* C30, amended: convergencia is True if and only if the last step error is
\* below tolerancia, or equal to it with the last iterate not above 1e10 in
\* magnitude (a step of exactly tolerancia that lands above 1e10 is returned
\* as divergent).
C30_Convergencia ==
    (Fin /\ EsPuntoFijo /\ R.historial_error # <<>>)
    => (R.convergencia
        <=> \/ Less(Ultimo(R.historial_error), self.tolerancia)
            \/ /\ Ultimo(R.historial_error) = self.tolerancia
               /\ ~Less(LIMITE_DIVERGENCIA, Abs(Ultimo(R.historial_x))))

\* a step of exactly tolerancia within the limit, returned as converged by
\* the loop exit
C30_Witness ==
    /\ Fin /\ EsPuntoFijo /\ R.convergencia
    /\ R.historial_error # <<>>
    /\ Ultimo(R.historial_error) = self.tolerancia
    /\ R.iteraciones = llamada.iteracion

\* exact arithmetic over n passes of a biseccion call: b0 - a0 can be halved
\* n times without falling below the smallest double, and no sum of the two
\* endpoints loses its smaller term
Exacta(n) ==
    /\ Sub(llamada.arg_b, llamada.arg_a).e - n >= MENOR_DOBLE.e
    /\ ~Absorbe(llamada.a, llamada.b)
    /\ ~Absorbe(llamada.b, llamada.a)

\* a biseccion call with a0 < b0 at the head of its loop (the precondition
\* has passed): the start of an iteration, or the loop exit
EnCabezaBiseccion ==
    EsBiseccion /\ llamada.pc = "bucle" /\ Less(llamada.arg_a, llamada.arg_b)

\* the interval of the frame brackets a sign change inside [a0, b0] and has
\* width (b0 - a0) / 2^iteracion
Horquilla ==
    /\ LessEq(llamada.arg_a, llamada.a)
    /\ Less(llamada.a, llamada.b)
    /\ LessEq(llamada.b, llamada.arg_b)
    /\ Call(llamada.funcion, llamada.a) # Raise
    /\ Call(llamada.funcion, llamada.b) # Raise
    /\ ProdSign(Call(llamada.funcion, llamada.a), Call(llamada.funcion, llamada.b)) < 0
    /\ Sub(llamada.b, llamada.a)
       = Mul(Sub(llamada.arg_b, llamada.arg_a), Norm(1, -llamada.iteracion))

\* C27: under exact arithmetic, in a biseccion call with a0 < b0 whose
\* precondition passed, at the start of every iteration and at loop exit
\* a0 <= a < b <= b0,
\* f(a) * f(b) < 0 and b - a = (b0 - a0) / 2^iteracion; every pass that
\* stays in the loop replaces exactly one endpoint by the midpoint.
C27_Horquilla ==
    /\ []((EnCabezaBiseccion /\ Exacta(llamada.iteracion)) => Horquilla)
    /\ [][(EnCabezaBiseccion /\ Exacta(llamada.iteracion + 1) /\ llamada'.pc = "bucle")
          => LET c == Half(Add(llamada.a, llamada.b))
             IN  \/ llamada'.a = llamada.a /\ llamada'.b = c /\ c # llamada.b
                 \/ llamada'.a = c /\ llamada'.b = llamada.b /\ c # llamada.a]_vars

\* a loop head after both endpoints have been replaced
C27_Witness ==
    /\ EnCabezaBiseccion /\ Horquilla
    /\ llamada.iteracion >= 2
    /\ llamada.a # llamada.arg_a
    /\ llamada.b # llamada.arg_b

\* a biseccion call that returned convergencia True from the loop exit (the
\* step-error test), not from the |f(c)| test inside the loop
ConvergidaPorPaso ==
    /\ Fin /\ EsBiseccion /\ R.convergencia
    /\ R.iteraciones = llamada.iteracion

\* the returned raiz is no recorded midpoint; it is the midpoint of the final
\* interval [a, b], which brackets a sign change and is as wide as the last
\* step error, so that raiz is within tolerancia / 2 of both endpoints; the
\* step errors after the first (inf) halve from one entry to the next
RaizDeLaHorquilla ==
    LET a == llamada.a
        b == llamada.b
        hx == R.historial_x
        he == R.historial_error
    IN  /\ \A i \in 1 .. Len(hx) : hx[i] # R.raiz
        /\ Add(R.raiz, R.raiz) = Add(a, b)
        /\ Call(llamada.funcion, a) # Raise
        /\ Call(llamada.funcion, b) # Raise
        /\ ProdSign(Call(llamada.funcion, a), Call(llamada.funcion, b)) < 0
        /\ Abs(Sub(b, a)) = Ultimo(he)
        /\ LessEq(Abs(Sub(R.raiz, a)), Half(self.tolerancia))
        /\ LessEq(Abs(Sub(b, R.raiz)), Half(self.tolerancia))
        /\ \A i \in 3 .. Len(he) : Add(he[i], he[i]) = he[i - 1]

\* C28 as stated: whenever biseccion returns convergencia True through the
\* step-error test, raiz is not in historial_x, it is the midpoint of a final
\* interval that brackets a sign change and whose width is the last step
\* error, within tolerancia / 2 of the sign change, and the step errors from
\* the second entry on halve from one to the next.
C28_SalidaPorPasoOriginal == ConvergidaPorPaso => RaizDeLaHorquilla

\* C28, amended: the same under exact arithmetic, that is when b0 - a0 can be
\* halved iteraciones + 1 times (once per pass and once for raiz) without
\* rounding.
C28_SalidaPorPaso ==
    (ConvergidaPorPaso /\ Exacta(R.iteraciones + 1)) => RaizDeLaHorquilla

\* a loop exit after three exact passes or more
C28_Witness ==
    /\ ConvergidaPorPaso /\ Exacta(R.iteraciones + 1)
    /\ R.iteraciones >= 3
    /\ R.mensaje = MSG_EXITO
    /\ RaizDeLaHorquilla

\* the functions supplied to the call raise at no point
Total ==
    /\ llamada.funcion.polo = None
    /\ llamada.derivada.polo = None
    /\ llamada.g_funcion.polo = None

\* one pass through the loop of the method
Pasada == BiseccionIteracion \/ NewtonIteracion \/ PuntoFijoIteracion

\* C25: for total supplied functions every call of biseccion, newton_raphson
\* and punto_fijo eventually returns; a pass through the loop starts only
\* while fewer than max_iteraciones passes have been made, and either returns
\* or increases the iteration counter by exactly 1, so that no call makes
\* more than max_iteraciones passes.
C25_Terminacion ==
    /\ (Total /\ ~Fin) ~> Fin
    /\ [](Total => (llamada.pc # "raise" /\ llamada.iteracion <= self.max_iteraciones))
    /\ [][(Total /\ Pasada)
          => /\ llamada.iteracion < self.max_iteraciones
             /\ \/ llamada'.pc = "return" /\ llamada'.iteracion = llamada.iteracion
                \/ /\ llamada'.pc = "bucle"
                   /\ llamada'.iteracion = llamada.iteracion + 1]_vars

\* a call on total functions that made max_iteraciones passes, each adding 1
\* to the counter, and then returned
C25_Witness ==
    /\ Fin /\ Total
    /\ self.max_iteraciones >= 2
    /\ llamada.iteracion = self.max_iteraciones
    /\ R.iteraciones = self.max_iteraciones
    /\ ~R.convergencia

\* the calls in progress on the instance
Invocaciones == {llamada} \cup {concurrentes[i] : i \in 1 .. Len(concurrentes)}

====
